---- MODULE Spec2Model ----
(***************************************************************************)
(* Console wallet UI controller (applications/tari_console_wallet, ui/app.rs). *)
(*                                                                         *)
(* The model covers App::new with get_custom_base_node_peer_from_db (the   *)
(* choice between the stored custom base node and the configured one) and  *)
(* the event handlers of App driven by the UI loop.                        *)
(*                                                                         *)
(* Strings are sequences of symbols.  In hexadecimal strings every symbol  *)
(* is one character.  In address strings "/" and decimal digits are one    *)
(* character each, while a protocol name ("ip4", "tcp") and a dotted quad  *)
(* ("9.9.9.9") are one symbol each.                                        *)
(***************************************************************************)
EXTENDS Integers, Sequences, FiniteSets, TLC

VARIABLES
    store,                          \* wallet.db client key-values: key -> Result<Option<String>>
    node_id_derivable,              \* whether NodeId::from_key is defined for the stored key
    base_node_config,               \* the Peer given by the configuration
    pc,                             \* position of the UI thread
    custom_base_node_peer_pubkey,   \* local of get_custom_base_node_peer_from_db
    custom_base_node_peer_address,  \* local of get_custom_base_node_peer_from_db
    custom_peer,                    \* Option<Peer> returned by get_custom_base_node_peer_from_db
    db_reads,                       \* keys read from wallet.db, in order
    log,                            \* records written to the log
    app,                            \* the App: should_quit, app_state, tabs
    calls,                          \* calls made on app_state and tabs by the last dispatched event
    backend,                        \* wallet data held by the asynchronous runtime
    frame,                          \* what the last draw put on the terminal
    event                           \* the event the UI loop delivered last

vars == <<store, node_id_derivable, base_node_config, pc, custom_base_node_peer_pubkey,
          custom_base_node_peer_address, custom_peer, db_reads, log, app, calls, backend, frame, event>>

----------------------------------------------------------------------------
(* Bounds of the model *)

\* Length of a public key in bytes (32 in the wallet, scaled down).
PublicKeyLength == 1

\* Number of changes of the wallet data by the backend during a session.
MaxBackend == 2

----------------------------------------------------------------------------
(* Option and Result *)

None == <<>>

Some(x) == <<x>>

Ok(v) == [tag |-> "Ok", val |-> v]

Err(e) == [tag |-> "Err", val |-> <<e>>]

IsOk(r) == r.tag = "Ok"

----------------------------------------------------------------------------
(* Constants of app.rs *)

LOG_TARGET == "wallet::ui::app"

CUSTOM_BASE_NODE_PUBLIC_KEY_KEY == "console_wallet_custom_base_node_public_key"

CUSTOM_BASE_NODE_ADDRESS_KEY == "console_wallet_custom_base_node_address"

----------------------------------------------------------------------------
(* Hex: PublicKey::from_hex and to_hex *)

LowerHex == <<"0", "1", "2", "3", "4", "5", "6", "7", "8", "9", "a", "b", "c", "d", "e", "f">>

UpperHex == <<"0", "1", "2", "3", "4", "5", "6", "7", "8", "9", "A", "B", "C", "D", "E", "F">>

IsHexDigit(ch) == \E i \in 1..16 : LowerHex[i] = ch \/ UpperHex[i] = ch

\* Value of a hexadecimal digit, either case.
HexVal(ch) == (CHOOSE i \in 1..16 : LowerHex[i] = ch \/ UpperHex[i] = ch) - 1

RECURSIVE TrimStart(_)
TrimStart(s) == IF s # <<>> /\ Head(s) = " " THEN TrimStart(Tail(s)) ELSE s

RECURSIVE TrimEnd(_)
TrimEnd(s) == IF s # <<>> /\ s[Len(s)] = " " THEN TrimEnd(SubSeq(s, 1, Len(s) - 1)) ELSE s

Trim(s) == TrimEnd(TrimStart(s))

\* Hex string -> bytes: surrounding whitespace is dropped, the length must be even,
\* every pair of digits (of either case) is one byte.
from_hex(s) ==
    LET t == Trim(s) IN
    IF Len(t) % 2 = 1 THEN Err("LengthError")
    ELSE IF \E i \in 1..Len(t) : ~IsHexDigit(t[i]) THEN Err("InvalidCharacter")
    ELSE Ok([i \in 1..(Len(t) \div 2) |-> 16 * HexVal(t[2 * i - 1]) + HexVal(t[2 * i])])

\* A necessary condition of a canonical compressed point: the encoded field
\* element is non-negative, that is its lowest bit is clear.
IsCanonicalPoint(bytes) == bytes[1] % 2 = 0

PublicKey_from_bytes(bytes) ==
    IF Len(bytes) # PublicKeyLength THEN Err("IncorrectByteCount")
    ELSE IF ~IsCanonicalPoint(bytes) THEN Err("InvalidPoint")
    ELSE Ok(bytes)

PublicKey_from_hex(s) ==
    LET b == from_hex(s) IN
    IF IsOk(b) THEN PublicKey_from_bytes(b.val) ELSE b

RECURSIVE to_hex(_)
\* Bytes -> hex string, two lower-case digits a byte.
to_hex(bytes) ==
    IF bytes = <<>> THEN <<>>
    ELSE <<LowerHex[(Head(bytes) \div 16) + 1], LowerHex[(Head(bytes) % 16) + 1]>> \o to_hex(Tail(bytes))

----------------------------------------------------------------------------
(* Multiaddr: String::parse::<Multiaddr> and to_string *)

Digits == <<"0", "1", "2", "3", "4", "5", "6", "7", "8", "9">>

IsDigit(ch) == \E i \in 1..10 : Digits[i] = ch

DigitVal(ch) == (CHOOSE i \in 1..10 : Digits[i] = ch) - 1

\* The dotted quads Ipv4Addr::from_str accepts, each one symbol.
Ipv4Literals == {"1.2.3.4", "9.9.9.9"}

\* str::split: the parts of s between the occurrences of sep ("" splits into one empty part).
Split(s, sep) ==
    LET at == {i \in 1..Len(s) : s[i] = sep}
        \* position of the j-th separator; 0 before the first part, Len(s) + 1 after the last
        pos(j) == IF j = 0 THEN 0
                  ELSE IF j > Cardinality(at) THEN Len(s) + 1
                  ELSE CHOOSE i \in at : Cardinality({k \in at : k < i}) = j - 1
    IN  [j \in 1..(Cardinality(at) + 1) |-> SubSeq(s, pos(j - 1) + 1, pos(j) - 1)]

\* Value of a run of decimal digits.
DecimalValue(ds) ==
    LET value[i \in 0..Len(ds)] == IF i = 0 THEN 0 ELSE 10 * value[i - 1] + DigitVal(ds[i])
    IN  value[Len(ds)]

\* u16::from_str: a non-empty run of decimal digits (leading zeros allowed) of value < 2^16.
parse_u16(part) ==
    IF part = <<>> \/ \E i \in 1..Len(part) : ~IsDigit(part[i]) THEN Err("ParseIntError")
    ELSE IF DecimalValue(part) > 65535 THEN Err("ParseIntError")
    ELSE Ok(DecimalValue(part))

RECURSIVE u16_to_string(_)
u16_to_string(n) ==
    IF n < 10 THEN <<Digits[n + 1]>> ELSE u16_to_string(n \div 10) \o <<Digits[(n % 10) + 1]>>

Ip4(a) == [proto |-> "ip4", ip |-> a, port |-> 0]

Tcp(p) == [proto |-> "tcp", ip |-> "", port |-> p]

\* Protocol::from_str_parts: a protocol name followed by its argument.
Protocol_from_str_parts(parts) ==
    IF parts[1] = <<"ip4">> THEN
        IF Len(parts) < 2 THEN Err("InvalidProtocolString")
        ELSE IF Len(parts[2]) = 1 /\ parts[2][1] \in Ipv4Literals THEN Ok(Ip4(parts[2][1]))
        ELSE Err("AddrParseError")
    ELSE IF parts[1] = <<"tcp">> THEN
        IF Len(parts) < 2 THEN Err("InvalidProtocolString")
        ELSE LET p == parse_u16(parts[2]) IN IF IsOk(p) THEN Ok(Tcp(p.val)) ELSE p
    ELSE Err("UnknownProtocolString")

\* The loop of Multiaddr::from_str over the parts that follow the leading "/": each
\* protocol takes its name and its argument; the first error ends the loop.
Protocols_from_parts(parts) ==
    LET n == (Len(parts) + 1) \div 2
        protocol(j) ==
            Protocol_from_str_parts(SubSeq(parts, 2 * j - 1, IF 2 * j <= Len(parts) THEN 2 * j ELSE Len(parts)))
    IN  IF \E j \in 1..n : ~IsOk(protocol(j))
        THEN protocol(CHOOSE j \in 1..n : ~IsOk(protocol(j)) /\ \A k \in 1..(j - 1) : IsOk(protocol(k)))
        ELSE Ok([j \in 1..n |-> protocol(j).val])

\* Multiaddr::from_str: the string must start with "/" (its first part is empty).
Multiaddr_from_str(s) ==
    LET parts == Split(s, "/") IN
    IF parts[1] # <<>> THEN Err("InvalidMultiaddr")
    ELSE Protocols_from_parts(Tail(parts))

Protocol_to_string(p) ==
    IF p.proto = "ip4" THEN <<"/", "ip4", "/", p.ip>>
    ELSE <<"/", "tcp", "/">> \o u16_to_string(p.port)

RECURSIVE Multiaddr_to_string(_)
Multiaddr_to_string(addr) ==
    IF addr = <<>> THEN <<>> ELSE Protocol_to_string(Head(addr)) \o Multiaddr_to_string(Tail(addr))

----------------------------------------------------------------------------
(* Peers *)

\* NodeId::from_key: the identifier derived from a public key; the derivation
\* is undefined for some keys.
NodeId_from_key(pk, derivable) ==
    IF derivable THEN Ok([derived_from |-> pk]) ELSE Err("IncorrectByteCount")

\* Peer::new(public_key, node_id, addresses, flags, features, ..)
Peer_new(public_key, node_id, addresses, flags, features) ==
    [public_key |-> public_key, node_id |-> node_id, addresses |-> addresses,
     flags |-> flags, features |-> features]

\* Option<&Multiaddr> -> String, as in the two matches of App::new.
first_address_string(peer) ==
    IF peer.addresses # <<>> THEN Multiaddr_to_string(Head(peer.addresses)) ELSE <<>>

----------------------------------------------------------------------------
(* Log records *)

LogRecord(level, msg, args) == [target |-> LOG_TARGET, level |-> level, msg |-> msg, args |-> args]

WarnReadProblem == LogRecord("warn", "Problem reading from wallet database", <<>>)

DebugConvertProblem ==
    LogRecord("debug", "Problem converting stored custom base node public key or address", <<>>)

DebugNodeIdProblem ==
    LogRecord("debug", "Problem converting stored base node public key to Node Id", <<>>)

InfoCustom(pk, addr) == LogRecord("info", "Using stored custom base node", <<pk, addr>>)

InfoConfig(pk, addr) == LogRecord("info", "Using configuration specified base node", <<pk, addr>>)

----------------------------------------------------------------------------
(* get_custom_base_node_peer_from_db *)

\* peer_from_stored with the address optional: a stored key alone makes a peer, its
\* address parsed from the empty string.
peer_from_stored_key_alone(public_key, address, derivable) ==
    IF public_key # None THEN
        LET pub_key_str == PublicKey_from_hex(public_key[1])
            addr_str    == Multiaddr_from_str(IF address # None THEN address[1] ELSE <<>>)
        IN  IF ~(IsOk(pub_key_str) /\ IsOk(addr_str)) THEN
                [peer |-> None, log |-> <<DebugConvertProblem>>]
            ELSE LET node_id == NodeId_from_key(pub_key_str.val, derivable) IN
                 IF ~IsOk(node_id) THEN [peer |-> None, log |-> <<DebugNodeIdProblem>>]
                 ELSE [peer |-> Some(Peer_new(pub_key_str.val, node_id.val, <<addr_str.val>>,
                                              "default", "COMMUNICATION_NODE")),
                       log |-> <<>>]
    ELSE [peer |-> None, log |-> <<>>]

\* peer_from_stored keeping the key when only the address does not parse: a peer
\* without address.
peer_from_stored_half(public_key, address, derivable) ==
    IF public_key # None /\ address # None THEN
        LET pub_key_str == PublicKey_from_hex(public_key[1])
            addr_str    == Multiaddr_from_str(address[1])
        IN  IF ~IsOk(pub_key_str) THEN [peer |-> None, log |-> <<DebugConvertProblem>>]
            ELSE LET node_id == NodeId_from_key(pub_key_str.val, derivable) IN
                 IF ~IsOk(node_id) THEN [peer |-> None, log |-> <<DebugNodeIdProblem>>]
                 ELSE [peer |-> Some(Peer_new(pub_key_str.val, node_id.val,
                                              IF IsOk(addr_str) THEN <<addr_str.val>> ELSE <<>>,
                                              "default", "COMMUNICATION_NODE")),
                       log |-> <<>>]
    ELSE [peer |-> None, log |-> <<>>]

\* The match on the two values read: the peer returned and the records logged.
peer_from_stored(public_key, address, derivable) ==
    IF public_key # None /\ address # None THEN
        LET pub_key_str == PublicKey_from_hex(public_key[1])
            addr_str    == Multiaddr_from_str(address[1])
        IN  IF ~(IsOk(pub_key_str) /\ IsOk(addr_str)) THEN
                [peer |-> None, log |-> <<DebugConvertProblem>>]
            ELSE LET node_id == NodeId_from_key(pub_key_str.val, derivable) IN
                 IF ~IsOk(node_id) THEN [peer |-> None, log |-> <<DebugNodeIdProblem>>]
                 ELSE [peer |-> Some(Peer_new(pub_key_str.val, node_id.val, <<addr_str.val>>,
                                              "default", "COMMUNICATION_NODE")),
                       log |-> <<>>]
    ELSE [peer |-> None, log |-> <<>>]

\* ReadPubKey returning None at once when the key is missing, without the second read.
ReadPubKey_returning_on_missing ==
    /\ pc = "read_pubkey"
    /\ db_reads' = Append(db_reads, CUSTOM_BASE_NODE_PUBLIC_KEY_KEY)
    /\ LET r == store[CUSTOM_BASE_NODE_PUBLIC_KEY_KEY] IN
       IF IsOk(r) /\ r.val # None
       THEN /\ custom_base_node_peer_pubkey' = r.val
            /\ pc' = "read_address"
            /\ UNCHANGED <<log, custom_peer>>
       ELSE /\ log' = IF IsOk(r) THEN log ELSE Append(log, WarnReadProblem)
            /\ custom_peer' = None
            /\ pc' = "new"
            /\ UNCHANGED custom_base_node_peer_pubkey
    /\ UNCHANGED <<store, node_id_derivable, base_node_config, custom_base_node_peer_address,
                   app, calls, backend, frame, event>>

\* ReadPubKey returning the storage error to its caller instead of None.
ReadPubKey_propagating ==
    /\ pc = "read_pubkey"
    /\ db_reads' = Append(db_reads, CUSTOM_BASE_NODE_PUBLIC_KEY_KEY)
    /\ LET r == store[CUSTOM_BASE_NODE_PUBLIC_KEY_KEY] IN
       IF IsOk(r)
       THEN /\ custom_base_node_peer_pubkey' = r.val
            /\ pc' = "read_address"
            /\ UNCHANGED <<log, custom_peer>>
       ELSE /\ pc' = "failed"
            /\ UNCHANGED <<log, custom_peer, custom_base_node_peer_pubkey>>
    /\ UNCHANGED <<store, node_id_derivable, base_node_config, custom_base_node_peer_address,
                   app, calls, backend, frame, event>>

\* First read: the stored public key.  A storage error is logged and ends the function with None.
ReadPubKey ==
    /\ pc = "read_pubkey"
    /\ db_reads' = Append(db_reads, CUSTOM_BASE_NODE_PUBLIC_KEY_KEY)
    /\ LET r == store[CUSTOM_BASE_NODE_PUBLIC_KEY_KEY] IN
       IF IsOk(r)
       THEN /\ custom_base_node_peer_pubkey' = r.val
            /\ pc' = "read_address"
            /\ UNCHANGED <<log, custom_peer>>
       ELSE /\ log' = Append(log, WarnReadProblem)
            /\ custom_peer' = None
            /\ pc' = "new"
            /\ UNCHANGED custom_base_node_peer_pubkey
    /\ UNCHANGED <<store, node_id_derivable, base_node_config, custom_base_node_peer_address,
                   app, calls, backend, frame, event>>

\* ReadAddress reading again after a storage error, once.
ReadAddress_retrying ==
    /\ pc = "read_address"
    /\ db_reads' = Append(db_reads, CUSTOM_BASE_NODE_ADDRESS_KEY)
    /\ LET r == store[CUSTOM_BASE_NODE_ADDRESS_KEY] IN
       IF IsOk(r)
       THEN /\ custom_base_node_peer_address' = r.val
            /\ pc' = "convert"
            /\ UNCHANGED <<log, custom_peer>>
       ELSE /\ log' = Append(log, WarnReadProblem)
            /\ custom_peer' = None
            /\ pc' = IF Len(db_reads) < 2 THEN "read_address" ELSE "new"
            /\ UNCHANGED custom_base_node_peer_address
    /\ UNCHANGED <<store, node_id_derivable, base_node_config, custom_base_node_peer_pubkey,
                   app, calls, backend, frame, event>>

\* ReadAddress without the warning on a storage error.
ReadAddress_silent ==
    /\ pc = "read_address"
    /\ db_reads' = Append(db_reads, CUSTOM_BASE_NODE_ADDRESS_KEY)
    /\ LET r == store[CUSTOM_BASE_NODE_ADDRESS_KEY] IN
       IF IsOk(r)
       THEN /\ custom_base_node_peer_address' = r.val
            /\ pc' = "convert"
            /\ UNCHANGED <<log, custom_peer>>
       ELSE /\ custom_peer' = None
            /\ pc' = "new"
            /\ UNCHANGED <<log, custom_base_node_peer_address>>
    /\ UNCHANGED <<store, node_id_derivable, base_node_config, custom_base_node_peer_pubkey,
                   app, calls, backend, frame, event>>

\* Second read: the stored address.
ReadAddress ==
    /\ pc = "read_address"
    /\ db_reads' = Append(db_reads, CUSTOM_BASE_NODE_ADDRESS_KEY)
    /\ LET r == store[CUSTOM_BASE_NODE_ADDRESS_KEY] IN
       IF IsOk(r)
       THEN /\ custom_base_node_peer_address' = r.val
            /\ pc' = "convert"
            /\ UNCHANGED <<log, custom_peer>>
       ELSE /\ log' = Append(log, WarnReadProblem)
            /\ custom_peer' = None
            /\ pc' = "new"
            /\ UNCHANGED custom_base_node_peer_address
    /\ UNCHANGED <<store, node_id_derivable, base_node_config, custom_base_node_peer_pubkey,
                   app, calls, backend, frame, event>>

\* The match on the two values and the return of the function.
Convert ==
    /\ pc = "convert"
    /\ LET r == peer_from_stored(custom_base_node_peer_pubkey, custom_base_node_peer_address,
                                 node_id_derivable)
       IN  /\ custom_peer' = r.peer
           /\ log' = log \o r.log
    /\ pc' = "new"
    /\ UNCHANGED <<store, node_id_derivable, base_node_config, custom_base_node_peer_pubkey,
                   custom_base_node_peer_address, db_reads, app, calls, backend, frame,
                   event>>

----------------------------------------------------------------------------
(* Collaborators of App: TabsContainer, the tabs, AppState *)

\* Values a tab may leave in the part of the cached state it writes.
TabData == {"idle", "edited"}

TabsContainer_new(title) == [title |-> title, titles |-> <<>>, index |-> 0, network_tab |-> <<>>]

TabsContainer_add(tabs, title) == [tabs EXCEPT !.titles = Append(@, title)]

\* NetworkTab::new(public_key_str, public_address_str)
NetworkTab_new(public_key_str, public_address_str) ==
    [base_node_public_key |-> public_key_str, base_node_address |-> public_address_str]

\* TabsContainer::next: the following tab, the first one after the last.
TabsContainer_next(tabs) == [tabs EXCEPT !.index = (@ + 1) % Len(tabs.titles)]

\* TabsContainer::previous: the preceding tab, the last one before the first.
TabsContainer_previous(tabs) ==
    [tabs EXCEPT !.index = IF @ > 0 THEN @ - 1 ELSE Len(tabs.titles) - 1]

\* AppState::new(node_identity, network, wallet, base_node_config, custom_peer)
AppState_new(config_peer, custom) ==
    [cache |-> 0, tab_data |-> "idle", base_node_config |-> config_peer, custom_base_node |-> custom]

\* AppState::update_cache completed: the cached data are those of the backend.
AppState_update_cache(app_state, data) == [app_state EXCEPT !.cache = data]

\* A handler of the active tab, given &mut AppState, leaves w in the part it writes.
Tab_handle(app_state, w) == [app_state EXCEPT !.tab_data = w]

\* TabsContainer::draw_content, given &mut AppState: the tab draws from the cached state.
TabsContainer_draw_content(app_state) == app_state

\* A call of a collaborator, as seen by it.
Call(op, tab, arg, cache) == [op |-> op, tab |-> tab, arg |-> arg, cache |-> cache]

----------------------------------------------------------------------------
(* App::new *)

\* The App before App::new has returned.
NoApp ==
    [title |-> "", should_quit |-> FALSE, app_state |-> AppState_new(<<>>, None),
     tabs |-> TabsContainer_new("")]

\* display_of logging the line of the configured peer in both branches.
display_of_config_line(custom, config_peer) ==
    IF custom # None THEN
        LET public_address == first_address_string(custom[1]) IN
        [pair |-> <<to_hex(custom[1].public_key), public_address>>,
         log  |-> InfoConfig(to_hex(custom[1].public_key), public_address)]
    ELSE
        LET public_address == first_address_string(config_peer) IN
        [pair |-> <<to_hex(config_peer.public_key), public_address>>,
         log  |-> InfoConfig(to_hex(config_peer.public_key), public_address)]

\* display_of taking the key of the configured peer in the branch of the custom peer.
display_of_config_key(custom, config_peer) ==
    IF custom # None THEN
        LET public_address == first_address_string(custom[1]) IN
        [pair |-> <<to_hex(config_peer.public_key), public_address>>,
         log  |-> InfoCustom(to_hex(custom[1].public_key), public_address)]
    ELSE
        LET public_address == first_address_string(config_peer) IN
        [pair |-> <<to_hex(config_peer.public_key), public_address>>,
         log  |-> InfoConfig(to_hex(config_peer.public_key), public_address)]

\* The (public_key_str, public_address_str) pair of App::new and the record it logs.
display_of(custom, config_peer) ==
    IF custom # None THEN
        LET public_address == first_address_string(custom[1]) IN
        [pair |-> <<to_hex(custom[1].public_key), public_address>>,
         log  |-> InfoCustom(to_hex(custom[1].public_key), public_address)]
    ELSE
        LET public_address == first_address_string(config_peer) IN
        [pair |-> <<to_hex(config_peer.public_key), public_address>>,
         log  |-> InfoConfig(to_hex(config_peer.public_key), public_address)]

\* App::new adding the Network tab first.
App_new_network_first(title, config_peer, custom) ==
    LET d == display_of(custom, config_peer)
        t == TabsContainer_add(TabsContainer_add(TabsContainer_add(TabsContainer_new(title),
                 "Network"), "Transactions"), "Send/Receive")
    IN  [title |-> title,
         should_quit |-> FALSE,
         app_state |-> AppState_new(config_peer, custom),
         tabs |-> [t EXCEPT !.network_tab = Some(NetworkTab_new(d.pair[1], d.pair[2]))]]

App_new(title, config_peer, custom) ==
    LET d == display_of(custom, config_peer)
        t == TabsContainer_add(TabsContainer_add(TabsContainer_add(TabsContainer_new(title),
                 "Transactions"), "Send/Receive"), "Network")
    IN  [title |-> title,
         should_quit |-> FALSE,
         app_state |-> AppState_new(config_peer, custom),
         tabs |-> [t EXCEPT !.network_tab = Some(NetworkTab_new(d.pair[1], d.pair[2]))]]

\* The rest of App::new, after get_custom_base_node_peer_from_db has returned.
AppNew ==
    /\ pc = "new"
    /\ app' = App_new("Tari Console Wallet", base_node_config, custom_peer)
    /\ log' = Append(log, display_of(custom_peer, base_node_config).log)
    /\ pc' = "draw"
    /\ UNCHANGED <<store, node_id_derivable, base_node_config, custom_base_node_peer_pubkey,
                   custom_base_node_peer_address, custom_peer, db_reads, calls, backend, frame,
                   event>>

----------------------------------------------------------------------------
(* The handlers of App *)

\* Characters delivered by the UI loop.
KeyChars == {"\t", "a"}

ControlChars == {"q", "c", "x"}

\* on_control_key toggling the flag on a quit signal.
on_control_key_toggling(self, c) ==
    IF c \in {"q", "c"} THEN [self EXCEPT !.should_quit = ~@] ELSE self

\* on_control_key quitting on 'q' only.
on_control_key_q_only(self, c) ==
    IF c = "q" THEN [self EXCEPT !.should_quit = TRUE] ELSE self

\* on_control_key quitting on every control character.
on_control_key_any(self, c) == [self EXCEPT !.should_quit = TRUE]

on_control_key(self, c) ==
    IF c \in {"q", "c"} THEN [self EXCEPT !.should_quit = TRUE] ELSE self

\* on_key without the arm of the tab character: every character goes to the tab.
on_key_all_forwarded(self, c, w) == [self EXCEPT !.app_state = Tab_handle(@, w)]

\* w is what the tab, if the key is forwarded to it, leaves in the cached state.
on_key(self, c, w) ==
    IF c = "\t" THEN [self EXCEPT !.tabs = TabsContainer_next(@)]
    ELSE [self EXCEPT !.app_state = Tab_handle(@, w)]

\* on_up moving to the previous tab as well.
on_up_moving(self, w) ==
    [self EXCEPT !.app_state = Tab_handle(@, w), !.tabs = TabsContainer_previous(@)]

on_up(self, w) == [self EXCEPT !.app_state = Tab_handle(@, w)]

on_down(self, w) == [self EXCEPT !.app_state = Tab_handle(@, w)]

on_right(self) == [self EXCEPT !.tabs = TabsContainer_next(@)]

\* on_left calling next() as on_right does.
on_left_advancing(self) == [self EXCEPT !.tabs = TabsContainer_next(@)]

on_left(self) == [self EXCEPT !.tabs = TabsContainer_previous(@)]

on_esc(self, w) == [self EXCEPT !.app_state = Tab_handle(@, w)]

on_backspace(self, w) == [self EXCEPT !.app_state = Tab_handle(@, w)]

\* What draw reads: the titles and the active tab, the base node status and the content of the tab.
draw(self) ==
    [titles |-> self.tabs.titles, index |-> self.tabs.index,
     cache |-> self.app_state.cache, tab_data |-> self.app_state.tab_data]

\* An event of the UI loop: its kind and, for a key, its character.
Event(kind, ch) == [kind |-> kind, ch |-> ch]

Startup == <<store, node_id_derivable, base_node_config, custom_base_node_peer_pubkey,
             custom_base_node_peer_address, custom_peer, db_reads, log>>

OnControlKey ==
    /\ pc = "poll"
    /\ \E c \in ControlChars :
          /\ event' = Event("control", c)
          /\ app' = on_control_key(app, c)
    /\ calls' = <<>>
    /\ pc' = "check"
    /\ UNCHANGED <<Startup, backend, frame>>

OnKey ==
    /\ pc = "poll"
    /\ \E c \in KeyChars, w \in TabData :
          /\ event' = Event("key", c)
          /\ app' = on_key(app, c, w)
          /\ calls' = IF c = "\t" THEN <<>>
                      ELSE <<Call("tabs.on_key", app.tabs.index, c, app.app_state.cache)>>
    /\ pc' = "check"
    /\ UNCHANGED <<Startup, backend, frame>>

OnUp ==
    /\ pc = "poll"
    /\ event' = Event("up", "")
    /\ \E w \in TabData : app' = on_up(app, w)
    /\ calls' = <<Call("tabs.on_up", app.tabs.index, "", app.app_state.cache)>>
    /\ pc' = "check"
    /\ UNCHANGED <<Startup, backend, frame>>

OnDown ==
    /\ pc = "poll"
    /\ event' = Event("down", "")
    /\ \E w \in TabData : app' = on_down(app, w)
    /\ calls' = <<Call("tabs.on_down", app.tabs.index, "", app.app_state.cache)>>
    /\ pc' = "check"
    /\ UNCHANGED <<Startup, backend, frame>>

OnRight ==
    /\ pc = "poll"
    /\ event' = Event("right", "")
    /\ app' = on_right(app)
    /\ calls' = <<>>
    /\ pc' = "check"
    /\ UNCHANGED <<Startup, backend, frame>>

OnLeft ==
    /\ pc = "poll"
    /\ event' = Event("left", "")
    /\ app' = on_left(app)
    /\ calls' = <<>>
    /\ pc' = "check"
    /\ UNCHANGED <<Startup, backend, frame>>

OnEsc ==
    /\ pc = "poll"
    /\ event' = Event("esc", "")
    /\ \E w \in TabData : app' = on_esc(app, w)
    /\ calls' = <<Call("tabs.on_esc", app.tabs.index, "", app.app_state.cache)>>
    /\ pc' = "check"
    /\ UNCHANGED <<Startup, backend, frame>>

OnBackspace ==
    /\ pc = "poll"
    /\ event' = Event("backspace", "")
    /\ \E w \in TabData : app' = on_backspace(app, w)
    /\ calls' = <<Call("tabs.on_backspace", app.tabs.index, "", app.app_state.cache)>>
    /\ pc' = "check"
    /\ UNCHANGED <<Startup, backend, frame>>

\* on_tick starting the refresh without waiting for it: the tick goes to the tab and
\* the handler returns while the refresh is still running.
OnTick_not_waiting ==
    /\ pc = "poll"
    /\ event' = Event("tick", "")
    /\ \E w \in TabData : app' = [app EXCEPT !.app_state = Tab_handle(@, w)]
    /\ calls' = <<Call("tabs.on_tick", app.tabs.index, "", app.app_state.cache)>>
    /\ pc' = "check"
    /\ UNCHANGED <<Startup, backend, frame>>

\* on_tick without the refresh: the tick goes to the tab at once.
OnTick_without_refresh ==
    /\ pc = "poll"
    /\ event' = Event("tick", "")
    /\ calls' = <<>>
    /\ pc' = "tick_forward"
    /\ UNCHANGED <<Startup, app, backend, frame>>

\* on_tick, first statement: block_on(update_cache()) is entered; the UI thread waits.
OnTick ==
    /\ pc = "poll"
    /\ event' = Event("tick", "")
    /\ calls' = <<>>
    /\ pc' = "tick_block_on"
    /\ UNCHANGED <<Startup, app, backend, frame>>

\* block_on returns: the refresh is complete.
OnTickRefreshed ==
    /\ pc = "tick_block_on"
    /\ app' = [app EXCEPT !.app_state = AppState_update_cache(@, backend)]
    /\ calls' = Append(calls, Call("app_state.update_cache", app.tabs.index, "", backend))
    /\ pc' = "tick_forward"
    /\ UNCHANGED <<Startup, event, backend, frame>>

\* on_tick, second statement: the tick is given to the active tab.
OnTickForward ==
    /\ pc = "tick_forward"
    /\ \E w \in TabData : app' = [app EXCEPT !.app_state = Tab_handle(@, w)]
    /\ calls' = Append(calls, Call("tabs.on_tick", app.tabs.index, "", app.app_state.cache))
    /\ pc' = "check"
    /\ UNCHANGED <<Startup, event, backend, frame>>

\* draw showing the data of the backend instead of the cached ones.
Draw_showing_backend ==
    /\ pc = "draw"
    /\ frame' = [draw(app) EXCEPT !.cache = backend]
    /\ app' = [app EXCEPT !.app_state = TabsContainer_draw_content(@)]
    /\ pc' = "poll"
    /\ UNCHANGED <<Startup, event, calls, backend>>

\* draw refreshing the cached state itself.
Draw_refreshing ==
    /\ pc = "draw"
    /\ frame' = draw(app)
    /\ app' = [app EXCEPT !.app_state = AppState_update_cache(@, backend)]
    /\ pc' = "poll"
    /\ UNCHANGED <<Startup, event, calls, backend>>

Draw ==
    /\ pc = "draw"
    /\ frame' = draw(app)
    /\ app' = [app EXCEPT !.app_state = TabsContainer_draw_content(@)]
    /\ pc' = "poll"
    /\ UNCHANGED <<Startup, event, calls, backend>>

----------------------------------------------------------------------------
(* The UI loop and the backend *)

\* After each event the loop looks at should_quit and leaves when it is set.
CheckQuit ==
    /\ pc = "check"
    /\ pc' = IF app.should_quit THEN "stopped" ELSE "draw"
    /\ UNCHANGED <<Startup, event, app, calls, backend, frame>>

\* The wallet, on its own runtime, changes the data the cache is refreshed from.
BackendChange ==
    /\ pc \in {"draw", "poll", "tick_block_on", "tick_forward", "check", "stopped"}
    /\ backend < MaxBackend
    /\ backend' = backend + 1
    /\ UNCHANGED <<Startup, event, pc, app, calls, frame>>

----------------------------------------------------------------------------
(* Initial states and specifications *)

\* Strings the wallet database may hold under CUSTOM_BASE_NODE_PUBLIC_KEY_KEY.
StoredPublicKeys ==
    { <<"a", "c">>,                 \* one byte, lower case
      <<"A", "C">>,                 \* the same byte, upper case
      <<"a", "b">>,                 \* not a canonical point
      <<"a">>,                      \* odd number of digits
      <<"a", "g">>,                 \* not hexadecimal
      <<"a", "c", "a", "e">>,       \* two bytes, lower case
      <<"a", "C", "a", "e">> }      \* two bytes, mixed case

\* Strings the wallet database may hold under CUSTOM_BASE_NODE_ADDRESS_KEY.
StoredAddresses ==
    { <<"/", "ip4", "/", "9.9.9.9", "/", "tcp", "/", "1", "8", "1", "4", "1">>,
      <<"/", "ip4", "/", "9.9.9.9", "/", "tcp", "/", "0", "1", "8", "1", "4", "1">>,
      <<"ip4", "/", "9.9.9.9">>,    \* no leading "/"
      <<"/", "ip4", "/", "9.9.9">>, \* not an IPv4 address
      <<"/", "foo", "/", "1">>,     \* unknown protocol
      <<>> }                        \* the empty string

ReadResults(strings) == {Err("db")} \cup {Ok(None)} \cup {Ok(Some(s)) : s \in strings}

ConfigAddress == <<Ip4("1.2.3.4"), Tcp(18141)>>

ConfigKey == [i \in 1..PublicKeyLength |-> 196]

\* The peers the configuration may give: with one address, with none.
ConfigPeers ==
    { Peer_new(ConfigKey, [derived_from |-> ConfigKey], addrs, "default", "COMMUNICATION_NODE") :
        addrs \in {<<ConfigAddress>>, <<>>} }

Init ==
    /\ \E pk \in ReadResults(StoredPublicKeys), ad \in ReadResults(StoredAddresses) :
          store = (CUSTOM_BASE_NODE_PUBLIC_KEY_KEY :> pk) @@ (CUSTOM_BASE_NODE_ADDRESS_KEY :> ad)
    /\ node_id_derivable \in BOOLEAN
    /\ base_node_config \in ConfigPeers
    /\ pc = "read_pubkey"
    /\ custom_base_node_peer_pubkey = None
    /\ custom_base_node_peer_address = None
    /\ custom_peer = None
    /\ db_reads = <<>>
    /\ log = <<>>
    /\ app = NoApp
    /\ calls = <<>>
    /\ backend = 0
    /\ frame = draw(NoApp)
    /\ event = Event("none", "")

Next ==
    \/ ReadPubKey
    \/ ReadAddress
    \/ Convert
    \/ AppNew
    \/ Draw
    \/ OnControlKey
    \/ OnKey
    \/ OnUp
    \/ OnDown
    \/ OnRight
    \/ OnLeft
    \/ OnEsc
    \/ OnBackspace
    \/ OnTick
    \/ OnTickRefreshed
    \/ OnTickForward
    \/ CheckQuit
    \/ BackendChange

Spec == Init /\ [][Next]_vars

\* App::new alone.  It is awaited by the caller, so each of its steps is eventually taken.
NextStartup ==
    \/ ReadPubKey
    \/ ReadAddress
    \/ Convert
    \/ AppNew

StartupSpec == Init /\ [][NextStartup]_vars /\ WF_vars(NextStartup)

----------------------------------------------------------------------------
(* State functions used by the properties *)

\* App::new has returned.
Constructed == pc \notin {"read_pubkey", "read_address", "convert", "new"}

StoredPubKey == store[CUSTOM_BASE_NODE_PUBLIC_KEY_KEY]

StoredAddress == store[CUSTOM_BASE_NODE_ADDRESS_KEY]

IsPresent(r) == IsOk(r) /\ r.val # None

IsMissing(r) == IsOk(r) /\ r.val = None

BothPresent == IsPresent(StoredPubKey) /\ IsPresent(StoredAddress)

\* Both stored values are present and parse, and the node identifier can be derived.
OverrideValid ==
    /\ BothPresent
    /\ IsOk(PublicKey_from_hex(StoredPubKey.val[1]))
    /\ IsOk(Multiaddr_from_str(StoredAddress.val[1]))
    /\ node_id_derivable

\* The peer made of the stored values alone.
OverridePeer ==
    LET pk == PublicKey_from_hex(StoredPubKey.val[1]).val IN
    [public_key |-> pk, node_id |-> [derived_from |-> pk],
     addresses |-> <<Multiaddr_from_str(StoredAddress.val[1]).val>>,
     flags |-> "default", features |-> "COMMUNICATION_NODE"]

\* The pair the Network tab was given.
DisplayPair ==
    <<app.tabs.network_tab[1].base_node_public_key, app.tabs.network_tab[1].base_node_address>>

\* The configured key in hex and the first configured address as a string ("" without one).
ConfigDisplayPair ==
    << [i \in 1..(2 * PublicKeyLength) |-> IF i % 2 = 1 THEN "c" ELSE "4"],
       IF base_node_config.addresses = <<>> THEN <<>>
       ELSE <<"/", "ip4", "/", "1.2.3.4", "/", "tcp", "/", "1", "8", "1", "4", "1">> >>

\* The session uses the configured peer, unchanged, and no override.
UsesConfigPeer ==
    /\ custom_peer = None
    /\ app.app_state.custom_base_node = None
    /\ app.app_state.base_node_config = base_node_config
    /\ DisplayPair = ConfigDisplayPair
    /\ log[Len(log)].msg = "Using configuration specified base node"

\* The session uses the override made of the stored values, and nothing of the configured peer.
UsesOverridePeer ==
    /\ custom_peer = Some(OverridePeer)
    /\ app.app_state.custom_base_node = Some(OverridePeer)
    /\ log[Len(log)].msg = "Using stored custom base node"

\* A hex string as to_hex writes it: lower-case digits only.
IsLowerCaseHex(s) == \A i \in 1..Len(s) : \E k \in 1..16 : LowerHex[k] = s[i]

\* An address string without a number written with leading zeros.
HasNoLeadingZero(s) ==
    \A i \in 1..Len(s) :
        (s[i] = "0" /\ (i = 1 \/ s[i - 1] = "/")) => (i = Len(s) \/ s[i + 1] = "/")

----------------------------------------------------------------------------
(* Properties of the choice of the base node *)

C2_MissingValueUsesConfigPeer ==
    (Constructed /\ (IsMissing(StoredPubKey) \/ IsMissing(StoredAddress))) => UsesConfigPeer

\* The address is missing while a valid public key is stored, and the session was built.
C2_Witness ==
    /\ Constructed
    /\ IsMissing(StoredAddress)
    /\ IsPresent(StoredPubKey)
    /\ IsOk(PublicKey_from_hex(StoredPubKey.val[1]))
    /\ base_node_config.addresses # <<>>

HasWarning == \E i \in 1..Len(log) : log[i].level = "warn"

\* C3: when a read of the store returns a storage error, the configured peer is used,
\* App::new still returns (the error is not propagated) and a warning is logged; no
\* warning is logged when the override was never configured (both values missing).
C3_StorageErrorFallsBackWithWarning ==
    Constructed =>
        /\ (~IsOk(StoredPubKey) \/ ~IsOk(StoredAddress)) =>
              /\ UsesConfigPeer
              /\ HasWarning
              /\ \E i \in 1..Len(log) : log[i] = WarnReadProblem
        /\ (IsMissing(StoredPubKey) /\ IsMissing(StoredAddress)) => ~HasWarning

\* The public key was read and the read of the address returned a storage error.
C3_Witness ==
    /\ Constructed
    /\ IsPresent(StoredPubKey)
    /\ ~IsOk(StoredAddress)
    /\ Len(db_reads) = 2

\* C4: the override is all or nothing.  When both values are present but the key or the
\* address does not parse, or the node identifier cannot be derived, the configured peer
\* is used; and the peer used is always either the configured peer or the override made
\* of the stored values alone, never a mix of the two.
C4_OverrideAllOrNothing ==
    Constructed =>
        /\ (BothPresent /\ ~OverrideValid) => UsesConfigPeer
        /\ \/ UsesConfigPeer
           \/ /\ OverrideValid
              /\ UsesOverridePeer
              /\ DisplayPair = <<to_hex(OverridePeer.public_key),
                                 Multiaddr_to_string(OverridePeer.addresses[1])>>

\* A valid key is stored with an address that does not parse, and the session was built.
C4_Witness ==
    /\ Constructed
    /\ BothPresent
    /\ IsOk(PublicKey_from_hex(StoredPubKey.val[1]))
    /\ ~IsOk(Multiaddr_from_str(StoredAddress.val[1]))

\* App::new has returned a session with a usable peer: the valid override or the configured peer.
ReturnedUsablePeer ==
    /\ pc = "draw"
    /\ app.tabs.network_tab # None
    /\ (OverrideValid /\ UsesOverridePeer) \/ UsesConfigPeer

\* C5: resolution is total.  Whatever the two reads, the two parses and the derivation
\* give, App::new eventually returns, it is never in an error state, and the session it
\* returns has a usable peer: the valid override or the configured peer.
C5_ResolutionTotal ==
    /\ <>Constructed
    /\ [](pc \in {"read_pubkey", "read_address", "convert", "new", "draw"})
    /\ [](Constructed => ReturnedUsablePeer)

\* The session was built although the derivation of the node identifier failed.
C5_Witness ==
    /\ Constructed
    /\ BothPresent
    /\ IsOk(PublicKey_from_hex(StoredPubKey.val[1]))
    /\ IsOk(Multiaddr_from_str(StoredAddress.val[1]))
    /\ ~node_id_derivable

----------------------------------------------------------------------------
(* Properties of the dispatch of events *)

RECURSIVE RepeatRight(_, _)
\* n times on_right
RepeatRight(self, n) == IF n = 0 THEN self ELSE RepeatRight(on_right(self), n - 1)

RECURSIVE RepeatLeft(_, _)
\* n times on_left
RepeatLeft(self, n) == IF n = 0 THEN self ELSE RepeatLeft(on_left(self), n - 1)

RECURSIVE RepeatTabKey(_, _)
\* n times on_key with the tab character
RepeatTabKey(self, n) ==
    IF n = 0 THEN self ELSE RepeatTabKey(on_key(self, "\t", self.app_state.tab_data), n - 1)

\* C6: tab cycling is a cyclic permutation of the N tabs.  From the active index of any
\* state of the session, N times on_right, N times on_key with the tab character and N
\* times on_left each lead back to it, fewer advances do not, and on_left undoes on_right
\* and on_right undoes on_left, at both ends of the sequence as well.
C6_TabCyclingIsCyclicPermutation ==
    Constructed =>
        LET N == Len(app.tabs.titles) IN
        /\ app.tabs.index \in 0..(N - 1)
        /\ RepeatRight(app, N) = app
        /\ RepeatTabKey(app, N) = app
        /\ RepeatLeft(app, N) = app
        /\ \A k \in 1..(N - 1) :
              /\ RepeatRight(app, k).tabs.index # app.tabs.index
              /\ RepeatLeft(app, k).tabs.index # app.tabs.index
        /\ on_left(on_right(app)) = app
        /\ on_right(on_left(app)) = app

\* on_left has wrapped from the first tab to the last one.
C6_Witness ==
    /\ pc = "check"
    /\ event.kind = "left"
    /\ frame.index = 0
    /\ app.tabs.index = Len(app.tabs.titles) - 1

\* C7: a quit signal, whenever it is delivered, sets should_quit; once the loop has seen
\* the flag it stops, and from then on no step changes the active tab, the cached state or
\* the flag, nor dispatches or draws anything.
C7_QuitStopsDispatch ==
    [][ /\ (pc = "poll" /\ pc' = "check" /\ event'.kind = "control" /\ event'.ch \in {"q", "c"})
              => app'.should_quit
        /\ (pc = "check" /\ app.should_quit) => (pc' \in {"check", "stopped"} /\ app' = app)
        /\ pc = "stopped" =>
              (pc' = "stopped" /\ app' = app /\ event' = event /\ calls' = calls /\ frame' = frame)
      ]_vars

\* The loop has stopped after Ctrl-C was delivered on a tab other than the first.
C7_Witness ==
    /\ pc = "stopped"
    /\ app.should_quit
    /\ event = Event("control", "c")
    /\ app.tabs.index # 0
    /\ backend > app.app_state.cache

\* C8: in every on_tick the refresh of the cached state completes before the active tab
\* is given the tick.  While the refresh is awaited the tab has not been called; when the
\* tab is called the cache holds the refreshed data; a tick makes exactly one refresh and
\* then exactly one on_tick call of the active tab; and nothing else is dispatched or
\* drawn between the two.
C8_TickRefreshesThenForwards ==
    /\ [](pc = "tick_block_on" => (event.kind = "tick" /\ calls = <<>>))
    /\ [](pc = "tick_forward" =>
            /\ event.kind = "tick"
            /\ Len(calls) = 1
            /\ calls[1].op = "app_state.update_cache"
            /\ app.app_state.cache = calls[1].cache)
    /\ []((pc = "check" /\ event.kind = "tick") =>
            /\ Len(calls) = 2
            /\ calls[1].op = "app_state.update_cache"
            /\ calls[2].op = "tabs.on_tick"
            /\ calls[2].tab = app.tabs.index
            /\ calls[2].cache = calls[1].cache
            /\ app.app_state.cache = calls[1].cache)
    /\ [][ /\ (pc = "poll" /\ pc' # "poll" /\ event'.kind = "tick") => pc' = "tick_block_on"
           /\ pc = "tick_block_on" =>
                 /\ pc' \in {"tick_block_on", "tick_forward"}
                 /\ pc' = "tick_forward" => app'.app_state.cache = backend
           /\ pc = "tick_forward" => pc' \in {"tick_forward", "check"}
           /\ pc \in {"tick_block_on", "tick_forward"} =>
                 /\ event' = event
                 /\ frame' = frame
                 /\ app'.tabs = app.tabs
                 /\ app'.should_quit = app.should_quit
         ]_vars

\* A tick has been handled whose refresh brought new data into the cache.
C8_Witness ==
    /\ pc = "check"
    /\ event.kind = "tick"
    /\ Len(calls) = 2
    /\ calls[2].cache > 0
    /\ calls[2].tab = 1

\* C9: on_control_key sets should_quit for a quit character ('q' or 'c') and changes
\* nothing else; for every other character it changes nothing at all.  The active tab and
\* the cached state are unchanged for every character.
C9_ControlKeyFrame ==
    [][ (pc = "poll" /\ pc' = "check" /\ event'.kind = "control") =>
            /\ app'.tabs = app.tabs
            /\ app'.app_state = app.app_state
            /\ app'.title = app.title
            /\ calls' = <<>>
            /\ IF event'.ch \in {"q", "c"} THEN app'.should_quit
               ELSE app'.should_quit = app.should_quit
      ]_vars

\* A control character that is no quit signal was handled and the session goes on.
C9_Witness ==
    /\ pc = "check"
    /\ event = Event("control", "x")
    /\ ~app.should_quit
    /\ app.tabs.index = 2
    /\ app.app_state.tab_data = "edited"

\* C10: draw is read-only: a draw leaves should_quit, the tabs with the active index and
\* the cached state as they were, so the next event sees what it would have seen without it.
C10_DrawIsReadOnly ==
    [][ (pc = "draw" /\ pc' = "poll") =>
            /\ app' = app
            /\ calls' = calls
            /\ event' = event
            /\ frame' = draw(app)
      ]_vars

\* A draw has shown a tab other than the first while the backend holds newer data than the cache.
C10_Witness ==
    /\ pc = "poll"
    /\ frame = draw(app)
    /\ frame.index = 1
    /\ frame.tab_data = "edited"
    /\ backend > app.app_state.cache

\* The step of a handler other than on_tick: an event is taken and handled at once.
Handled(kind) == pc = "poll" /\ pc' = "check" /\ event'.kind = kind

\* C11: on_key routes by character.  The tab character moves the active index to the
\* next tab, wrapping after the last, and is forwarded to no tab; every other character is
\* forwarded exactly once to the tab that is active, with the cached state, and leaves the
\* active tab as it is.
C11_OnKeyRoutesByCharacter ==
    [][ Handled("key") =>
            /\ app'.should_quit = app.should_quit
            /\ app'.tabs.titles = app.tabs.titles
            /\ IF event'.ch = "\t"
               THEN /\ app'.tabs.index = (IF app.tabs.index = Len(app.tabs.titles) - 1
                                          THEN 0 ELSE app.tabs.index + 1)
                    /\ calls' = <<>>
                    /\ app'.app_state = app.app_state
               ELSE /\ app'.tabs = app.tabs
                    /\ calls' = <<[op |-> "tabs.on_key", tab |-> app.tabs.index,
                                   arg |-> event'.ch, cache |-> app.app_state.cache]>>
                    /\ app'.app_state.cache = app.app_state.cache
      ]_vars

\* A character was forwarded to the last tab, which wrote to the cached state.
C11_Witness ==
    /\ pc = "check"
    /\ event = Event("key", "a")
    /\ Len(calls) = 1
    /\ calls[1].tab = 2
    /\ app.app_state.tab_data = "edited"
    /\ frame.tab_data = "idle"

\* C12: on_up, on_down, on_esc and on_backspace are each forwarded, once, to the active
\* tab in every state of the session and change neither the active tab nor should_quit;
\* on_right and on_left change the active index only: they forward nothing and leave the
\* cached state and should_quit as they are.
C12_NavigationFrame ==
    [][ /\ \A kind \in {"up", "down", "esc", "backspace"} :
              Handled(kind) =>
                  /\ calls' = <<[op |-> (CASE kind = "up" -> "tabs.on_up"
                                           [] kind = "down" -> "tabs.on_down"
                                           [] kind = "esc" -> "tabs.on_esc"
                                           [] kind = "backspace" -> "tabs.on_backspace"),
                                 tab |-> app.tabs.index, arg |-> "",
                                 cache |-> app.app_state.cache]>>
                  /\ app'.tabs = app.tabs
                  /\ app'.should_quit = app.should_quit
        /\ \A kind \in {"right", "left"} :
              Handled(kind) =>
                  /\ calls' = <<>>
                  /\ app'.app_state = app.app_state
                  /\ app'.should_quit = app.should_quit
                  /\ app' = [app EXCEPT !.tabs.index = app'.tabs.index]
                  /\ app'.tabs.index # app.tabs.index
        /\ (pc = "poll" /\ Constructed) =>
              (ENABLED OnUp /\ ENABLED OnDown /\ ENABLED OnEsc /\ ENABLED OnBackspace)
      ]_vars

\* Escape was forwarded to the second tab after the cache had been refreshed.
C12_Witness ==
    /\ pc = "check"
    /\ event.kind = "esc"
    /\ Len(calls) = 1
    /\ calls[1].op = "tabs.on_esc"
    /\ calls[1].tab = 1
    /\ calls[1].cache > 0

----------------------------------------------------------------------------
(* Properties of the reads of the store *)

\* C13 as stated: every run of the resolution makes the two reads, the public key first
\* and the address second, whatever the first read returns.
C13_AlwaysTwoReads ==
    /\ pc = "read_address" => db_reads = <<CUSTOM_BASE_NODE_PUBLIC_KEY_KEY>>
    /\ pc \notin {"read_pubkey", "read_address"} =>
          db_reads = <<CUSTOM_BASE_NODE_PUBLIC_KEY_KEY, CUSTOM_BASE_NODE_ADDRESS_KEY>>

\* C13 amended: the public key is read first and the address is read only after that
\* read has completed; the address is read whenever the first read returns without a
\* storage error, its value present or missing; after a storage error of the first read
\* the function returns at once and the address is not read.
C13_SecondReadUnlessFirstFailed ==
    /\ pc = "read_pubkey" => db_reads = <<>>
    /\ pc = "read_address" =>
          /\ db_reads = <<CUSTOM_BASE_NODE_PUBLIC_KEY_KEY>>
          /\ IsOk(StoredPubKey)
          /\ custom_base_node_peer_pubkey = StoredPubKey.val
    /\ pc \notin {"read_pubkey", "read_address"} =>
          db_reads = IF IsOk(StoredPubKey)
                     THEN <<CUSTOM_BASE_NODE_PUBLIC_KEY_KEY, CUSTOM_BASE_NODE_ADDRESS_KEY>>
                     ELSE <<CUSTOM_BASE_NODE_PUBLIC_KEY_KEY>>

\* The public key is missing and the address was read all the same.
C13_Witness ==
    /\ Constructed
    /\ IsMissing(StoredPubKey)
    /\ IsPresent(StoredAddress)
    /\ Len(db_reads) = 2

\* Position of a step of App::new in the order of the code.
StartupRank(p) ==
    CASE p = "read_pubkey" -> 1
      [] p = "read_address" -> 2
      [] p = "convert" -> 3
      [] p = "new" -> 4
      [] OTHER -> 5

LogCount(level) == Cardinality({i \in 1..Len(log) : log[i].level = level})

\* C14: the resolution retries nothing.  Each key is read at most once, the conversion of
\* the stored values (the two parses and the derivation) is made at most once, at most one
\* failure is logged, and once a failure has discarded the override no later step brings
\* it back: the result of the resolution is never changed afterwards.
C14_NoRetries ==
    /\ [](/\ \A i, j \in 1..Len(db_reads) : db_reads[i] = db_reads[j] => i = j
          /\ LogCount("warn") + LogCount("debug") <= 1
          /\ (LogCount("warn") + LogCount("debug") = 1 /\ StartupRank(pc) >= 4)
                => custom_peer = None)
    /\ [][ /\ StartupRank(pc) < 5 => (pc' = pc \/ StartupRank(pc') > StartupRank(pc))
           /\ StartupRank(pc) = 5 => StartupRank(pc') = 5
           /\ StartupRank(pc) >= 4 => (custom_peer' = custom_peer /\ db_reads' = db_reads)
           /\ StartupRank(pc) = 5 => log' = log
         ]_vars

\* A stored key did not parse; the session runs with the configured peer and has handled a tick.
C14_Witness ==
    /\ pc = "check"
    /\ event.kind = "tick"
    /\ BothPresent
    /\ ~IsOk(PublicKey_from_hex(StoredPubKey.val[1]))
    /\ LogCount("debug") = 1
    /\ custom_peer = None

----------------------------------------------------------------------------
(* Properties of the single UI thread *)

\* C15: events are handled one at a time, each to its end, and a draw shows the cached
\* state as the last completed event left it.  An event is taken only when the previous
\* one is complete and the flag has been looked at; a draw happens only between two events,
\* never inside a tick, and shows exactly the cached state; the cache changes only when
\* the refresh of a tick completes, to the data of the backend at that moment; and a
\* change of the backend alone changes neither the cached state nor what is drawn.
C15_DrawSeesCompletedEvents ==
    /\ [](pc = "poll" => frame = draw(app))
    /\ [][ /\ frame' # frame => (pc = "draw" /\ pc' = "poll" /\ frame' = draw(app))
           /\ backend' # backend => (app' = app /\ frame' = frame /\ pc' = pc)
           /\ app'.app_state.cache # app.app_state.cache =>
                 (pc = "tick_block_on" /\ app'.app_state.cache = backend)
           /\ (Constructed /\ app' # app) => pc \in {"poll", "tick_block_on", "tick_forward"}
           /\ pc = "draw" => pc' \in {"draw", "poll"}
           /\ pc = "poll" => pc' \in {"poll", "check", "tick_block_on"}
           /\ pc = "check" => pc' \in {"check", "draw", "stopped"}
           /\ event' # event => pc = "poll"
         ]_vars

\* A draw shows refreshed data that are already older than those of the backend.
C15_Witness ==
    /\ pc = "poll"
    /\ frame = draw(app)
    /\ frame.cache = 1
    /\ backend = 2
    /\ event.kind = "key"

\* C16: the UI thread is paused while the refresh of a tick is in progress.  Every tick
\* waits for the refresh; while it waits no event is dispatched, nothing is drawn and
\* should_quit is neither set nor looked at; no handler other than on_tick waits; the
\* flag is set only by a handler that runs between two waits and the loop stops only at
\* its check after an event.
C16_ThreadPausedDuringRefresh ==
    /\ [](pc = "tick_block_on" => (event.kind = "tick" /\ ~app.should_quit))
    /\ [][ /\ (pc = "poll" /\ pc' # "poll") =>
                 (pc' = IF event'.kind = "tick" THEN "tick_block_on" ELSE "check")
           /\ pc = "tick_block_on" =>
                 /\ pc' \in {"tick_block_on", "tick_forward"}
                 /\ event' = event
                 /\ frame' = frame
                 /\ calls' = calls \/ pc' = "tick_forward"
                 /\ app'.should_quit = app.should_quit
                 /\ app'.tabs = app.tabs
           /\ (pc' = "tick_block_on" /\ pc # "tick_block_on") => pc = "poll"
           /\ app'.should_quit # app.should_quit => pc = "poll"
           /\ (pc' = "stopped" /\ pc # "stopped") => (pc = "check" /\ app.should_quit)
         ]_vars

\* The thread waits for a refresh while the backend holds data newer than the cache.
C16_Witness ==
    /\ pc = "tick_block_on"
    /\ backend > app.app_state.cache
    /\ frame = draw(app)
    /\ app.tabs.index = 1

----------------------------------------------------------------------------
(* Properties of the log and of the Network tab *)

\* The peer App::new has selected: the custom peer when there is one.
SelectedPeer == IF custom_peer # None THEN custom_peer[1] ELSE base_node_config

\* The key of the selected peer in hex and its first address as a string, "" without address.
SelectedPair ==
    << to_hex(SelectedPeer.public_key),
       IF Len(SelectedPeer.addresses) = 0 THEN <<>>
       ELSE Multiaddr_to_string(SelectedPeer.addresses[1]) >>

\* C17: a session start logs exactly one line naming the source of the peer, the line
\* of the stored custom base node if and only if the resolution returned an override and
\* the line of the configured base node otherwise; the line and the Network tab carry the
\* public key and the address of that same selected peer.
C17_OnePeerSourceLine ==
    Constructed =>
        /\ LogCount("info") = 1
        /\ log[Len(log)].level = "info"
        /\ log[Len(log)].msg = IF custom_peer # None THEN "Using stored custom base node"
                               ELSE "Using configuration specified base node"
        /\ custom_peer # None <=> OverrideValid
        /\ log[Len(log)].args = SelectedPair
        /\ DisplayPair = SelectedPair

\* The override was selected and logged after a key in upper case was stored.
C17_Witness ==
    /\ Constructed
    /\ custom_peer # None
    /\ ~IsLowerCaseHex(StoredPubKey.val[1])
    /\ log[Len(log)].msg = "Using stored custom base node"

----------------------------------------------------------------------------
(* Properties of the quit flag and of the tab set *)

\* Every state one operation of the session can leave, from the state self.
AfterOneOperation(self) ==
    {on_control_key(self, c) : c \in ControlChars}
        \cup {on_key(self, c, w) : c \in KeyChars, w \in TabData}
        \cup {on_up(self, w) : w \in TabData}
        \cup {on_down(self, w) : w \in TabData}
        \cup {on_esc(self, w) : w \in TabData}
        \cup {on_backspace(self, w) : w \in TabData}
        \cup {on_right(self), on_left(self)}
        \cup {[self EXCEPT !.app_state = Tab_handle(AppState_update_cache(@, backend), w)] : w \in TabData}
        \cup {[self EXCEPT !.app_state = TabsContainer_draw_content(@)]}

\* C19: the quit flag is false when the session is constructed and, once it is true, no
\* operation (key, navigation, tick, control signal, render) sets it back to false.
C19_QuitFlagMonotonic ==
    /\ [](Constructed =>
             \A s \in AfterOneOperation([app EXCEPT !.should_quit = TRUE]) :
                 s.should_quit)
    /\ [][ /\ app.should_quit => app'.should_quit
           /\ (pc = "new" /\ pc' # "new") => ~app'.should_quit
           /\ (app'.should_quit /\ ~app.should_quit) =>
                 (pc = "poll" /\ event'.kind = "control" /\ event'.ch \in {"q", "c"})
         ]_vars

\* The flag was set by 'q' after other events had been handled, and the backend has changed since.
C19_Witness ==
    /\ pc = "stopped"
    /\ app.should_quit
    /\ event = Event("control", "q")
    /\ app.app_state.tab_data = "edited"
    /\ app.app_state.cache = 1
    /\ backend = 2

TabTitles == <<"Transactions", "Send/Receive", "Network">>

\* C20: the session always holds exactly the three tabs Transactions, Send/Receive,
\* Network in that order, no operation adds, removes or reorders a tab, the active index
\* always designates one of the three, and advancing goes through them in that order.
C20_TabSetFixed ==
    /\ [](Constructed =>
             /\ app.tabs.titles = TabTitles
             /\ app.tabs.index \in 0..2
             /\ app.tabs.network_tab # None
             /\ \A s \in AfterOneOperation(app) :
                   /\ s.tabs.titles = TabTitles
                   /\ s.tabs.network_tab = app.tabs.network_tab
                   /\ s.tabs.index \in 0..2
             /\ on_right(app).tabs.index = (app.tabs.index + 1) % 3
             /\ on_key(app, "\t", "idle").tabs.index = (app.tabs.index + 1) % 3
             /\ LET from0 == [app EXCEPT !.tabs.index = 0] IN
                [k \in 1..4 |-> from0.tabs.titles[RepeatRight(from0, k - 1).tabs.index + 1]]
                    = <<"Transactions", "Send/Receive", "Network", "Transactions">>)
    /\ [][ Constructed =>
              /\ app'.tabs.titles = app.tabs.titles
              /\ app'.tabs.network_tab = app.tabs.network_tab
              /\ app'.tabs.index # app.tabs.index =>
                    (pc = "poll" /\ event'.kind \in {"right", "left", "key"})
         ]_vars

\* Advancing from the Network tab has come back to the Transactions tab.
C20_Witness ==
    /\ pc = "check"
    /\ event.kind = "right"
    /\ frame.index = 2
    /\ app.tabs.index = 0
    /\ app.tabs.titles[frame.index + 1] = "Network"

====
